---- MODULE Spec2Model ----
(***************************************************************************)
(* The OCR server of src/server.cpp: the TaskProcessor (a monitor-guarded  *)
(* FIFO queue of OcrTask drained by a fixed pool of worker threads), the   *)
(* per-task promise/future result channel, the ProcessImage handler with   *)
(* its bounded wait, and the main thread's stopProcessing calls.           *)
(*                                                                         *)
(* Every thread is a small program counter machine.  queue_mutex_ and the  *)
(* condition variable task_available_ are modelled explicitly: a thread    *)
(* holds the mutex between its lock step and the step that leaves the      *)
(* critical section, and a worker blocked in wait() moves again only when  *)
(* a notify (or a spurious wake-up) releases it.                           *)
(***************************************************************************)
EXTENDS Integers, Sequences, FiniteSets, TLC

\* ---------------------------------------------------------------- bounds
\* the largest worker_count the pool is constructed with (0..MaxWorkers)
MaxWorkers == 2
\* the number of ProcessImage requests that arrive
MaxRequests == 2
\* the steady clock advances in steps of TickSeconds up to MaxTime
TickSeconds == 75
MaxTime == 150

\* ---------------------------------------------------- program constants
\* text_future.wait_for(std::chrono::seconds(120))
WaitSeconds == 120
\* duration_cast<std::chrono::milliseconds>
MillisPerSecond == 1000

Workers == 1..MaxWorkers
Requests == 1..MaxRequests

VARIABLES
    now,                  \* std::chrono::steady_clock::now(), in seconds
    worker_count,         \* the constructor's argument
    wpc,                  \* each worker thread's position in processTasks
    current_task,         \* each worker's local current_task (0: none)
    pending_tasks_,       \* the queue, front first
    queue_mutex_,         \* the thread that holds the mutex
    shutdown_requested_,
    text_promise,         \* per task: the shared state of promise/future
    task_start_time,      \* per task
    hpc,                  \* each ProcessImage call's position
    deadline,             \* per call: when its wait_for times out
    response,             \* per call: the ProcessImageResponse
    spc,                  \* the main thread's position
    stop_call,            \* which stopProcessing call main is in (0: none yet)
    submit_log,           \* history: tasks in the order they were pushed
    dequeue_log,          \* history: tasks in the order they were popped
    write_count,          \* history: per task, how often its shared state was changed
    outcome_of,           \* history: per task, which way its try block went
    ocr_engine,           \* per engine instance: the thread that declared it, its Init calls
    other_spc,            \* a second thread that calls stopProcessing: its position
    cpc,                  \* the client's extractFromImage call: its position
    operation_status,     \* client: the grpc::Status of the remote call
    server_reply,         \* client: what the remote call left in the response
    extraction_response,  \* client: the response object extractFromImage returns
    stub_calls            \* history: how often the stub's ProcessImage was called

vars == <<now, worker_count, wpc, current_task, pending_tasks_,
          queue_mutex_, shutdown_requested_, text_promise, task_start_time,
          hpc, deadline, response, spc, stop_call,
          submit_log, dequeue_log, write_count, outcome_of, ocr_engine,
          other_spc, cpc, operation_status, server_reply, extraction_response,
          stub_calls>>

clockVars == <<now>>
workerVars == <<worker_count, wpc, current_task>>
queueVars == <<pending_tasks_, shutdown_requested_>>
handlerVars == <<task_start_time, hpc, deadline, response>>
stopVars == <<spc, stop_call>>
logVars == <<submit_log, dequeue_log, write_count, outcome_of>>
engineVars == <<ocr_engine>>
clientVars == <<cpc, operation_status, server_reply, extraction_response, stub_calls>>
serverVars == <<now, worker_count, wpc, current_task, pending_tasks_,
                queue_mutex_, shutdown_requested_, text_promise, task_start_time,
                hpc, deadline, response, spc, stop_call, logVars, engineVars,
                other_spc>>

\* ------------------------------------------------------------- threads
NoThread == <<"none", 0>>
WorkerThread(w) == <<"worker", w>>
HandlerThread(h) == <<"handler", h>>
MainThread == <<"main", 0>>
\* another thread of the process that calls stopProcessing
OtherThread == <<"other", 0>>

\* std::promise<std::string>: no value yet
NotReady == <<"not ready">>
\* std::shared_ptr<OcrTask> current_task;  (empty)
NoTask == 0

\* request h carries its own image bytes
ImageOf(h) == "img" \o ToString(h)

\* the ways through the try block of processTasks: pixReadMem returns null;
\* GetUTF8Text returns text, or null; a std::exception or anything else is thrown
Outcomes == {"decode_failed", "recognised", "no_text", "std_exception", "unknown_exception"}

\* the images of the model: every other request carries a readable image on which
\* recognition may throw, the others an image that is damaged or blank or makes a
\* library throw something that is no std::exception
OutcomesOf(h) ==
    IF h % 2 = 1 THEN {"recognised", "std_exception"}
                 ELSE {"decode_failed", "no_text", "unknown_exception"}

\* a worker that reports an unreadable image as an error
DecodeFailureAsError(image, outcome) ==
    CASE outcome = "decode_failed" -> <<"ERROR: ", "unreadable image">>
      [] outcome = "recognised" -> <<"text of ", image>>
      [] outcome = "no_text" -> <<>>
      [] outcome = "std_exception" -> <<"ERROR: ", "what">>
      [] outcome = "unknown_exception" -> <<"ERROR: ", "unknown exception">>

\* a worker whose catch clauses leave extracted_text as it was
ExceptionAsEmptyText(image, outcome) ==
    CASE outcome = "decode_failed" -> <<>>
      [] outcome = "recognised" -> <<"text of ", image>>
      [] outcome = "no_text" -> <<>>
      [] outcome = "std_exception" -> <<>>
      [] outcome = "unknown_exception" -> <<>>

\* extracted_text at the end of the try block and its catch clauses
ProcessOutcome(image, outcome) ==
    CASE outcome = "decode_failed" -> <<>>
      [] outcome = "recognised" -> <<"text of ", image>>
      [] outcome = "no_text" -> <<>>
      [] outcome = "std_exception" -> <<"ERROR: ", "what">>
      [] outcome = "unknown_exception" -> <<"ERROR: ", "unknown exception">>

\* ProcessImageResponse as protobuf default-constructs it
DefaultResponse ==
    [ok |-> FALSE, text |-> <<>>, message |-> "", processing_time_ms |-> 0,
     status |-> "none"]

\* a vector of threads that was never filled: the join loop joins nobody
JoinNobody == {}

\* the worker threads the constructor started
workers_ == 1..worker_count

\* --------------------------------------------------- recognition engine
\* an engine instance that no thread has declared yet
NoEngine == [created_by |-> NoThread, inits |-> 0]

\* one engine for the whole pool, as a member of TaskProcessor would be
SharedEngine(w) == 1

\* tesseract::TessBaseAPI ocr_engine; is a local of processTasks: every worker
\* thread has the instance of its own call
EngineOf(w) == w

\* the else branch of if (!image_pix) runs SetImage and GetUTF8Text on the engine
UsesEngine(outcome) == outcome # "decode_failed"

\* ----------------------------------------------------------- the client
\* grpc::Status of the remote call: OK, or a StatusCode with its error_message
Statuses ==
    {[ok |-> TRUE, error_message |-> ""],
     [ok |-> FALSE, error_message |-> "Deadline Exceeded"],
     [ok |-> FALSE, error_message |-> "failed to connect to all addresses"]}

\* no status yet
NoStatus == [ok |-> FALSE, error_message |-> "no call"]

\* what a remote call can leave in extraction_response: the handler's answers
\* (completed with some text and time, or timed out); after a failed call the
\* content is whatever the transport left there
ServerReplies ==
    {[ok |-> o, text |-> t, message |-> m, processing_time_ms |-> p, status |-> "OK"] :
        o \in BOOLEAN, t \in {<<>>, <<"text of ", "img1">>, <<"ERROR: ", "what">>},
        m \in {"", "Image processing timeout"}, p \in {0, MillisPerSecond}}

Init ==
    /\ now = 0
    /\ worker_count \in 0..MaxWorkers
    /\ wpc = [w \in Workers |-> IF w <= worker_count THEN "start" ELSE "absent"]
    /\ current_task = [w \in Workers |-> NoTask]
    /\ pending_tasks_ = <<>>
    /\ queue_mutex_ = NoThread
    /\ shutdown_requested_ = FALSE
    /\ text_promise = [t \in Requests |-> NotReady]
    /\ task_start_time = [t \in Requests |-> 0]
    /\ hpc = [h \in Requests |-> "idle"]
    /\ deadline = [h \in Requests |-> 0]
    /\ response = [h \in Requests |-> DefaultResponse]
    /\ spc = "serving"
    /\ stop_call = 0
    /\ submit_log = <<>>
    /\ dequeue_log = <<>>
    /\ write_count = [t \in Requests |-> 0]
    /\ outcome_of = [t \in Requests |-> "none"]
    /\ ocr_engine = [e \in Workers |-> NoEngine]
    /\ other_spc = "idle"
    /\ cpc = "idle"
    /\ operation_status = NoStatus
    /\ server_reply = DefaultResponse
    /\ extraction_response = DefaultResponse
    /\ stub_calls = 0

\* ------------------------------------------------- mutex and condition
\* a lock that is taken without waiting for its holder
LockWithoutWaiting(thread) == queue_mutex_' = thread

\* std::lock_guard / std::unique_lock on queue_mutex_: waits until it is free
Lock(thread) ==
    /\ queue_mutex_ = NoThread
    /\ queue_mutex_' = thread

Unlock(thread) ==
    /\ queue_mutex_ = thread
    /\ queue_mutex_' = NoThread

\* a notify that reaches no waiting thread
NobodyWaiting == {}

\* the workers blocked in task_available_.wait
Blocked == {w \in Workers : wpc[w] = "blocked"}

\* ------------------------------------------------------------- workers
\* tesseract::TessBaseAPI ocr_engine; ocr_engine.Init(...)
WorkerStart(w) ==
    /\ wpc[w] = "start"
    /\ ocr_engine' = [ocr_engine EXCEPT ![EngineOf(w)] =
                         [created_by |-> WorkerThread(w), inits |-> @.inits + 1]]
    /\ wpc' = [wpc EXCEPT ![w] = "lock"]
    /\ UNCHANGED <<clockVars, other_spc, clientVars,
                   worker_count, current_task, queueVars,
                   queue_mutex_, text_promise, handlerVars, stopVars, logVars>>

\* std::unique_lock<std::mutex> lock(queue_mutex_), and the re-lock of a woken wait
WorkerLock(w) ==
    /\ wpc[w] = "lock"
    /\ Lock(WorkerThread(w))
    /\ wpc' = [wpc EXCEPT ![w] = "locked"]
    /\ UNCHANGED <<clockVars, engineVars, other_spc, clientVars,
                   worker_count, current_task, queueVars,
                   text_promise, handlerVars, stopVars, logVars>>

\* a pool that takes a task only while no worker is processing one
WaitForIdlePool ==
    (shutdown_requested_ \/ pending_tasks_ # <<>>)
        /\ \A w \in Workers : current_task[w] = NoTask

\* a wait that wakes for tasks only, not for the shutdown
WakeOnTaskOnly == pending_tasks_ # <<>>

\* the predicate of task_available_.wait
WaitPredicate == shutdown_requested_ \/ pending_tasks_ # <<>>

\* a worker that leaves as soon as shutdown is requested, tasks queued or not
ExitOnShutdown == shutdown_requested_

\* if (shutdown_requested_ && pending_tasks_.empty()) return;
ExitCondition == shutdown_requested_ /\ pending_tasks_ = <<>>

\* current_task = pending_tasks_.front();
Front(q) == Head(q)

\* a pop that removes nothing: the front task would be served again
PopNothing(q) == q

\* pending_tasks_.pop();
Pop(q) == Tail(q)

\* under the lock: wait (release and block), or return, or take the front task
WorkerWaitOrTake(w) ==
    /\ wpc[w] = "locked"
    /\ Unlock(WorkerThread(w))
    /\ IF ~WaitPredicate
         THEN /\ wpc' = [wpc EXCEPT ![w] = "blocked"]
              /\ UNCHANGED <<current_task, pending_tasks_, dequeue_log>>
         ELSE IF ExitCondition
         THEN /\ wpc' = [wpc EXCEPT ![w] = "exited"]
              /\ UNCHANGED <<current_task, pending_tasks_, dequeue_log>>
         ELSE /\ current_task' = [current_task EXCEPT ![w] = Front(pending_tasks_)]
              /\ pending_tasks_' = Pop(pending_tasks_)
              /\ dequeue_log' = Append(dequeue_log, Front(pending_tasks_))
              /\ wpc' = [wpc EXCEPT ![w] = "process"]
    /\ UNCHANGED <<clockVars, engineVars, other_spc, clientVars,
                   worker_count, shutdown_requested_,
                   text_promise, handlerVars, stopVars, submit_log, write_count,
                   outcome_of>>

\* a condition variable may wake without a notify; the wait re-locks and re-tests
WorkerSpuriousWake(w) ==
    /\ wpc[w] = "blocked"
    /\ wpc' = [wpc EXCEPT ![w] = "lock"]
    /\ UNCHANGED <<clockVars, engineVars, other_spc, clientVars,
                   worker_count, current_task, queueVars,
                   queue_mutex_, text_promise, handlerVars, stopVars, logVars>>

\* the 120 s of call h's wait_for have elapsed
WaitExpired(h) == hpc[h] = "waiting" /\ now >= deadline[h]

\* a worker that delivers only non-empty text
SetValueUnlessEmpty(shared_state, value) ==
    IF shared_state = NotReady /\ value # <<>> THEN value ELSE shared_state

\* std::promise::set_value: stores the value, or throws promise_already_satisfied
SetValue(shared_state, value) ==
    IF shared_state = NotReady THEN value ELSE shared_state

\* a try block without its catch clauses: a throw ends the thread
ThrowEndsThread(outcome) ==
    IF outcome \in {"std_exception", "unknown_exception"} THEN "exited" ELSE "lock"

\* where the worker goes after the task: both catch clauses fall through to the
\* set_value and the end of the while (true) body, whatever the outcome
AfterTask(outcome) == "lock"

\* the rest of the loop body, all of it local to the worker but the set_value:
\* the try block (pixReadMem, preprocessing, recognition, the two catches) leaves
\* extracted_text; try { text_promise.set_value(extracted_text); } catch (...) {};
\* current_task goes out of scope
WorkerProcess(w) ==
    /\ wpc[w] = "process"
    /\ \E outcome \in OutcomesOf(current_task[w]) :
         LET t == current_task[w]
             extracted_text == ProcessOutcome(ImageOf(t), outcome)
         IN  /\ text_promise' = [text_promise EXCEPT
                                   ![t] = SetValue(text_promise[t], extracted_text)]
             /\ write_count' = IF text_promise'[t] # text_promise[t]
                                 THEN [write_count EXCEPT ![t] = @ + 1]
                                 ELSE write_count
             /\ outcome_of' = [outcome_of EXCEPT ![t] = outcome]
             /\ wpc' = [wpc EXCEPT ![w] = AfterTask(outcome)]
    /\ current_task' = [current_task EXCEPT ![w] = NoTask]
    /\ UNCHANGED <<clockVars, engineVars, other_spc, clientVars,
                   worker_count, queueVars, queue_mutex_, handlerVars,
                   stopVars, submit_log, dequeue_log>>

\* ------------------------------------------------------------ handlers
\* the requests arrive one after another; which arrives first is only a name
\* a wait that starts after the arrival must be able to time out before MaxTime
CanArrive(h) ==
    /\ hpc[h] = "idle"
    /\ \A k \in Requests : k < h => hpc[k] # "idle"
    /\ now + WaitSeconds <= MaxTime

\* make_shared<OcrTask>, the fields, task_start_time = now(), get_future()
Receive(h) ==
    /\ CanArrive(h)
    /\ task_start_time' = [task_start_time EXCEPT ![h] = now]
    /\ hpc' = [hpc EXCEPT ![h] = "received"]
    /\ UNCHANGED <<clockVars, engineVars, other_spc, clientVars,
                   workerVars, queueVars, queue_mutex_, text_promise,
                   deadline, response, stopVars, logVars>>

\* submitTask: std::lock_guard<std::mutex> guard(queue_mutex_);
SubmitLock(h) ==
    /\ hpc[h] = "received"
    /\ Lock(HandlerThread(h))
    /\ hpc' = [hpc EXCEPT ![h] = "push"]
    /\ UNCHANGED <<clockVars, engineVars, other_spc, clientVars,
                   workerVars, queueVars, text_promise, task_start_time,
                   deadline, response, stopVars, logVars>>

\* a push at the front: the queue would serve the newest task first
PushFront(q, task) == <<task>> \o q

\* a submitTask that turns work away once shutdown is requested
PushUnlessShutdown(q, task) == IF shutdown_requested_ THEN q ELSE Append(q, task)

\* pending_tasks_.push(task);
Push(q, task) == Append(q, task)

\* submitTask: the push, and the end of the guarded block
SubmitPush(h) ==
    /\ hpc[h] = "push"
    /\ Unlock(HandlerThread(h))
    /\ pending_tasks_' = Push(pending_tasks_, h)
    /\ submit_log' = Append(submit_log, h)
    /\ hpc' = [hpc EXCEPT ![h] = "notify"]
    /\ UNCHANGED <<clockVars, engineVars, other_spc, clientVars,
                   workerVars, shutdown_requested_, text_promise,
                   task_start_time, deadline, response, stopVars, dequeue_log, write_count,
                   outcome_of>>

\* task_available_.notify_one() wakes one blocked worker, if there is one;
\* submitTask returns and text_future.wait_for(std::chrono::seconds(120)) is called
SubmitNotify(h) ==
    /\ hpc[h] = "notify"
    /\ \/ /\ Blocked = {}
          /\ wpc' = wpc
       \/ \E w \in Blocked : wpc' = [wpc EXCEPT ![w] = "lock"]
    /\ deadline' = [deadline EXCEPT ![h] = now + WaitSeconds]
    /\ hpc' = [hpc EXCEPT ![h] = "waiting"]
    /\ UNCHANGED <<clockVars, engineVars, other_spc, clientVars,
                   worker_count, current_task, queueVars,
                   queue_mutex_, text_promise, task_start_time, response,
                   stopVars, logVars>>

\* a handler that reads the channel of the next request's task
FutureOfNeighbour(h) == text_promise[(h % MaxRequests) + 1]

\* the future the handler took from its own task's promise
FutureOf(h) == text_promise[h]

\* a wait without a deadline, as text_future.wait() would be
WaitForever(h) == FALSE

\* a wait that reports the timeout whenever the time is up, value or not
WaitTimedOutIgnoringValue(h) == WaitExpired(h)

\* wait_for returns future_status::timeout: the time is up and no value is there
WaitTimedOut(h) == WaitExpired(h) /\ FutureOf(h) = NotReady

\* a handler that does not wait for the value
ReadyAtOnce(h) == TRUE

\* wait_for returns future_status::ready
WaitReady(h) == FutureOf(h) # NotReady

\* duration_cast<milliseconds>(steady_clock::now() - new_task->task_start_time).count()
ProcessingTime(h) == (now - task_start_time[h]) * MillisPerSecond

\* a handler that submits its task again when the wait times out
RetryAfterTimeout == "received"

\* return Status::OK; in the timeout branch: the call is over
AfterTimeout == "timed_out"

\* a handler that takes the processing time before it looks at the status
TimeoutResponseWithTime(h) ==
    [response[h] EXCEPT !.ok = FALSE, !.message = "Image processing timeout",
                        !.processing_time_ms = ProcessingTime(h), !.status = "OK"]

\* the timeout branch of ProcessImage
TimeoutResponse(h) ==
    [response[h] EXCEPT !.ok = FALSE, !.message = "Image processing timeout",
                        !.status = "OK"]

\* the branch after text_future.get()
CompletedResponse(h) ==
    [response[h] EXCEPT !.ok = TRUE, !.text = FutureOf(h),
                        !.processing_time_ms = ProcessingTime(h), !.status = "OK"]

HandlerTimeout(h) ==
    /\ hpc[h] = "waiting"
    /\ WaitTimedOut(h)
    /\ response' = [response EXCEPT ![h] = TimeoutResponse(h)]
    /\ hpc' = [hpc EXCEPT ![h] = AfterTimeout]
    /\ UNCHANGED <<clockVars, engineVars, other_spc, clientVars,
                   workerVars, queueVars, queue_mutex_, text_promise,
                   task_start_time, deadline, stopVars, logVars>>

HandlerComplete(h) ==
    /\ hpc[h] = "waiting"
    /\ WaitReady(h)
    /\ response' = [response EXCEPT ![h] = CompletedResponse(h)]
    /\ hpc' = [hpc EXCEPT ![h] = "completed"]
    /\ UNCHANGED <<clockVars, engineVars, other_spc, clientVars,
                   workerVars, queueVars, queue_mutex_, text_promise,
                   task_start_time, deadline, stopVars, logVars>>

\* ------------------------------------------------- main: stopProcessing
\* main calls stopProcessing after server->Wait(), and ~TaskProcessor calls it again
StopCalls == 2

\* server->Wait() returns and main calls processor.stopProcessing(); later main
\* returns and ~TaskProcessor makes the second call.  Each call starts with
\* std::lock_guard<std::mutex> guard(queue_mutex_);
StopLock ==
    /\ \/ spc = "serving" /\ stop_call = 0
       \/ spc = "returned" /\ stop_call < StopCalls
    /\ Lock(MainThread)
    /\ stop_call' = stop_call + 1
    /\ spc' = "stop_check"
    /\ UNCHANGED <<clockVars, engineVars, other_spc, clientVars,
                   workerVars, queueVars, text_promise, handlerVars,
                   logVars>>

\* a stopProcessing without its early return
NeverAlreadyRequested == FALSE

\* if (shutdown_requested_) return;
AlreadyRequested == shutdown_requested_

\* the early return, or shutdown_requested_ = true; and the end of the guarded block
StopCheck ==
    /\ spc = "stop_check"
    /\ Unlock(MainThread)
    /\ IF AlreadyRequested
         THEN /\ spc' = "returned"
              /\ UNCHANGED <<shutdown_requested_, pending_tasks_>>
         ELSE /\ shutdown_requested_' = TRUE
              /\ pending_tasks_' = pending_tasks_
              /\ spc' = "notify_all"
    /\ UNCHANGED <<clockVars, engineVars, other_spc, clientVars,
                   workerVars, text_promise, handlerVars, stop_call,
                   logVars>>

\* task_available_.notify_all();
StopNotifyAll ==
    /\ spc = "notify_all"
    /\ wpc' = [w \in Workers |-> IF w \in Blocked THEN "lock" ELSE wpc[w]]
    /\ spc' = "join"
    /\ UNCHANGED <<clockVars, engineVars, other_spc, clientVars,
                   worker_count, current_task, queueVars,
                   queue_mutex_, text_promise, handlerVars, stop_call, logVars>>

\* for (auto &worker_thread : workers_) if (joinable()) join();
\* the loop ends when every worker thread has returned from processTasks
StopJoin ==
    /\ spc = "join"
    /\ \A w \in workers_ : wpc[w] = "exited"
    /\ spc' = "returned"
    /\ UNCHANGED <<clockVars, engineVars, other_spc, clientVars,
                   workerVars, queueVars, queue_mutex_, text_promise,
                   handlerVars, stop_call, logVars>>

\* ------------------------------------------- client: extractFromImage
\* the request is built, the deadline set, and service_stub_->ProcessImage called
ClientCall ==
    /\ cpc = "idle"
    /\ stub_calls' = stub_calls + 1
    /\ cpc' = "calling"
    /\ UNCHANGED <<serverVars, operation_status, server_reply, extraction_response>>

\* the blocking call ends, by the deadline set on client_context at the latest,
\* with a status and with what it wrote into extraction_response
RemoteCallEnds ==
    /\ cpc = "calling"
    /\ \E status \in Statuses, reply \in ServerReplies :
         /\ operation_status' = status
         /\ server_reply' = reply
         /\ extraction_response' = reply
    /\ cpc' = "status_check"
    /\ UNCHANGED <<serverVars, stub_calls>>

\* a wrapper that hands on the response whatever the status
ReturnUnmapped(status, reply) == reply

\* if (!operation_status.ok()) { set_ok(false); set_message(error_message()); }
MapStatus(status, reply) ==
    IF ~status.ok
      THEN [reply EXCEPT !.ok = FALSE, !.message = status.error_message]
      ELSE reply

\* the status check and return extraction_response;
ReturnResponse ==
    /\ cpc = "status_check"
    /\ extraction_response' = MapStatus(operation_status, extraction_response)
    /\ cpc' = "returned"
    /\ UNCHANGED <<serverVars, operation_status, server_reply, stub_calls>>

\* ------------------------------- stopProcessing called by another thread
\* stopProcessing is public and takes the mutex: a second thread may call it
\* while main's call is under way, or before it
OtherStopLock ==
    /\ other_spc = "idle"
    /\ Lock(OtherThread)
    /\ other_spc' = "stop_check"
    /\ UNCHANGED <<clockVars, workerVars, queueVars, text_promise, handlerVars,
                   stopVars, logVars, engineVars, clientVars>>

OtherStopCheck ==
    /\ other_spc = "stop_check"
    /\ Unlock(OtherThread)
    /\ IF AlreadyRequested
         THEN /\ other_spc' = "returned"
              /\ UNCHANGED <<shutdown_requested_, pending_tasks_>>
         ELSE /\ shutdown_requested_' = TRUE
              /\ pending_tasks_' = pending_tasks_
              /\ other_spc' = "notify_all"
    /\ UNCHANGED <<clockVars, workerVars, text_promise, handlerVars, stopVars,
                   logVars, engineVars, clientVars>>

OtherStopNotifyAll ==
    /\ other_spc = "notify_all"
    /\ wpc' = [w \in Workers |-> IF w \in Blocked THEN "lock" ELSE wpc[w]]
    /\ other_spc' = "join"
    /\ UNCHANGED <<clockVars, worker_count, current_task, queueVars, queue_mutex_,
                   text_promise, handlerVars, stopVars, logVars, engineVars,
                   clientVars>>

OtherStopJoin ==
    /\ other_spc = "join"
    /\ \A w \in workers_ : wpc[w] = "exited"
    /\ other_spc' = "returned"
    /\ UNCHANGED <<clockVars, workerVars, queueVars, queue_mutex_, text_promise,
                   handlerVars, stopVars, logVars, engineVars, clientVars>>

\* --------------------------------------------------------------- clock
\* the calls that have not yet called wait_for
BeforeWait == {h \in Requests : hpc[h] \in {"received", "push", "notify"}}

\* the steady clock advances; it stops short of MaxTime while a call that has
\* arrived could no longer fit its whole wait before MaxTime
Tick ==
    /\ now < MaxTime
    /\ BeforeWait # {} => now + TickSeconds + WaitSeconds <= MaxTime
    /\ now' = IF now + TickSeconds <= MaxTime THEN now + TickSeconds ELSE MaxTime
    /\ UNCHANGED <<workerVars, queueVars, queue_mutex_, text_promise, handlerVars,
                   stopVars, logVars, engineVars, other_spc, clientVars>>

\* ------------------------------------------------------- specification
WorkerStep(w) ==
    \/ WorkerStart(w)
    \/ WorkerLock(w)
    \/ WorkerWaitOrTake(w)
    \/ WorkerProcess(w)

HandlerStep(h) ==
    \/ Receive(h)
    \/ SubmitLock(h)
    \/ SubmitPush(h)
    \/ SubmitNotify(h)
    \/ HandlerTimeout(h)
    \/ HandlerComplete(h)

StopStep ==
    \/ StopLock
    \/ StopCheck
    \/ StopNotifyAll
    \/ StopJoin

Next ==
    \/ \E w \in Workers : WorkerStep(w)
    \/ \E w \in Workers : WorkerSpuriousWake(w)
    \/ \E h \in Requests : HandlerStep(h)
    \/ StopStep
    \/ Tick

Spec == Init /\ [][Next]_vars

\* the server with a second thread that calls stopProcessing at any time
OtherStopStep ==
    \/ OtherStopLock
    \/ OtherStopCheck
    \/ OtherStopNotifyAll
    \/ OtherStopJoin

OverlapNext ==
    \/ \E w \in Workers : WorkerStep(w)
    \/ \E w \in Workers : WorkerSpuriousWake(w)
    \/ \E h \in Requests : HandlerStep(h)
    \/ StopStep
    \/ OtherStopStep
    \/ Tick

OverlapSpec == Init /\ [][OverlapNext]_vars

\* one call of the client's wrapper, the server left aside
ClientNext ==
    \/ ClientCall
    \/ RemoteCallEnds
    \/ ReturnResponse

ClientSpec == Init /\ [][ClientNext]_vars

\* the remote call ends and the wrapper runs on to its return
ClientFairSpec ==
    ClientSpec /\ WF_vars(RemoteCallEnds) /\ WF_vars(ReturnResponse)

\* ------------------------------------------------------------ fairness
\* every thread that can run does run; the mutex is granted to a thread that
\* keeps asking for it; a request may never arrive, server->Wait() may never
\* return, and a condition variable need not wake spuriously
HandlerFairness ==
    \A h \in Requests :
        /\ SF_vars(SubmitLock(h))
        /\ WF_vars(SubmitPush(h))
        /\ WF_vars(SubmitNotify(h))
        /\ WF_vars(HandlerTimeout(h))
        /\ WF_vars(HandlerComplete(h))

\* a thread inside the critical section leaves it
MutexFairness ==
    /\ \A w \in Workers : WF_vars(WorkerWaitOrTake(w))
    /\ WF_vars(StopCheck)

WorkerFairness ==
    \A w \in Workers :
        /\ WF_vars(WorkerStart(w))
        /\ SF_vars(WorkerLock(w))
        /\ WF_vars(WorkerProcess(w))

StopFairness ==
    /\ SF_vars(StopLock /\ stop_call >= 1)
    /\ WF_vars(StopNotifyAll)
    /\ WF_vars(StopJoin)

\* the handlers and the clock run, whatever the workers do outside the mutex
HandlerFairSpec == Spec /\ HandlerFairness /\ MutexFairness /\ WF_vars(Tick)

\* every thread runs and every processing step ends
FairSpec ==
    Spec /\ HandlerFairness /\ MutexFairness /\ WorkerFairness /\ StopFairness
         /\ WF_vars(Tick)

\* ------------------------------------------------------------- claims
Range(seq) == {seq[i] : i \in 1..Len(seq)}

NoDuplicates(seq) == \A i, j \in 1..Len(seq) : seq[i] = seq[j] => i = j

\* the tasks some worker holds in its current_task
Held == {current_task[w] : w \in Workers} \ {NoTask}

\* C1: the tasks are popped in exactly the order in which submitTask pushed them:
\* at every moment the pushes so far are the pops so far followed by the queue
C1_FifoOrder == submit_log = dequeue_log \o pending_tasks_

\* two tasks were queued one behind the other and two workers have popped both
C1_Witness ==
    /\ Len(dequeue_log) = 2
    /\ wpc[1] = "process" /\ wpc[2] = "process"
    /\ hpc[1] = "waiting" /\ hpc[2] = "waiting"

\* C2: a pushed task is in the queue until one worker pops it: no task is in the
\* queue twice or popped twice, no popped task is still queued, no two workers
\* hold the same task, and every pushed task is queued or was popped
C2_ExactlyOneDequeue ==
    /\ NoDuplicates(pending_tasks_)
    /\ NoDuplicates(dequeue_log)
    /\ Range(pending_tasks_) \cap Range(dequeue_log) = {}
    /\ Range(submit_log) = Range(pending_tasks_) \cup Range(dequeue_log)
    /\ \A v, w \in Workers :
         current_task[v] # NoTask /\ current_task[v] = current_task[w] => v = w
    /\ Held \subseteq Range(dequeue_log)

\* one task is with a worker while another is still queued behind it
C2_Witness ==
    /\ ~shutdown_requested_
    /\ Held # {}
    /\ pending_tasks_ # <<>>
    /\ Len(submit_log) = 2

\* the worker step that writes task t's result channel
WritesChannel(t) ==
    \E w \in Workers :
        /\ wpc[w] = "process" /\ current_task[w] = t
        /\ current_task'[w] = NoTask

\* a channel changed at most once; it holds a value exactly if it was written;
\* only a popped task is written; a popped task no worker holds any more is written
C3_Channels ==
    \A t \in Requests :
        /\ write_count[t] <= 1
        /\ write_count[t] = 1 <=> text_promise[t] # NotReady
        /\ write_count[t] = 1 => t \in Range(dequeue_log)
        /\ t \in Range(dequeue_log) \ Held => write_count[t] = 1

\* C3: a result channel is written at most once and never overwritten, only by
\* the worker that popped the task, and a task a worker has finished is written
C3_WrittenOnceByItsWorker ==
    /\ []C3_Channels
    /\ [][\A t \in Requests :
            text_promise'[t] # text_promise[t]
                => text_promise[t] = NotReady /\ WritesChannel(t)]_vars

\* every task was popped, processed and written, one of them with empty text
C3_Witness ==
    /\ \A t \in Requests : write_count[t] = 1
    /\ \E t \in Requests : text_promise[t] = <<>>
    /\ Held = {}

\* the request states of the handler's state machine
ReqState(h) ==
    CASE hpc[h] = "idle" -> "NONE"
      [] hpc[h] \in {"received", "push"} -> "RECEIVED"
      [] hpc[h] \in {"notify", "waiting"} -> "QUEUED"
      [] hpc[h] = "completed" -> "COMPLETED"
      [] hpc[h] = "timed_out" -> "TIMED_OUT"

ReqTransitions ==
    {<<"NONE", "RECEIVED">>, <<"RECEIVED", "QUEUED">>,
     <<"QUEUED", "COMPLETED">>, <<"QUEUED", "TIMED_OUT">>}

\* how often request h's task was pushed
Submissions(h) == Cardinality({i \in 1..Len(submit_log) : submit_log[i] = h})

\* C4: a request goes RECEIVED, QUEUED, then COMPLETED or TIMED_OUT, by these
\* steps only (so never both ends, never back, never past QUEUED), and its task
\* is pushed exactly once, on the step into QUEUED
C4_RequestStateMachine ==
    /\ [](\A h \in Requests :
            Submissions(h) = IF ReqState(h) \in {"NONE", "RECEIVED"} THEN 0 ELSE 1)
    /\ [][\A h \in Requests :
            \/ ReqState(h)' = ReqState(h)
            \/ <<ReqState(h), ReqState(h)'>> \in ReqTransitions]_vars

\* one request ended COMPLETED and another TIMED_OUT
C4_Witness ==
    \E g, h \in Requests : ReqState(g) = "COMPLETED" /\ ReqState(h) = "TIMED_OUT"

\* the texts a worker can produce from request h's own image
OwnTexts(h) == {ProcessOutcome(ImageOf(h), outcome) : outcome \in OutcomesOf(h)}

\* what C5 says of a COMPLETED request apart from the deadline
C5_OwnResult(h) ==
    /\ response[h].ok
    /\ text_promise[h] # NotReady
    /\ response[h].text = text_promise[h]
    /\ response[h].text \in OwnTexts(h)
    /\ response[h].processing_time_ms >= 0

\* C5 as stated: a request is COMPLETED only if its channel was fulfilled before
\* its 120 s had elapsed (once they have elapsed with the channel still empty, the
\* request never ends COMPLETED), with its own task's text and a time >= 0
C5_AsStated ==
    \A h \in Requests :
        /\ []((WaitExpired(h) /\ text_promise[h] = NotReady)
                 => [](hpc[h] # "completed"))
        /\ [](hpc[h] = "completed" => C5_OwnResult(h))

\* C5 (amended): a request answers ok=true only as COMPLETED, and is COMPLETED only
\* if its own channel was fulfilled before its wait returned; the text is the
\* value written for its own task and processing_time_ms is >= 0
C5_CompletedOwnResult ==
    /\ [](\A h \in Requests :
            /\ response[h].ok <=> hpc[h] = "completed"
            /\ hpc[h] = "completed" => C5_OwnResult(h))
    /\ [][\A h \in Requests :
            hpc'[h] = "completed" /\ hpc[h] # "completed"
                => text_promise[h] # NotReady /\ hpc[h] = "waiting"]_vars

\* two requests are COMPLETED with different texts, one of them after time has
\* passed and yet within its 120 s
C5_Witness ==
    /\ hpc[1] = "completed" /\ hpc[2] = "completed"
    /\ response[1].text # response[2].text
    /\ \E h \in Requests :
         /\ response[h].processing_time_ms > 0
         /\ response[h].processing_time_ms < WaitSeconds * MillisPerSecond

\* the response of the timeout branch, on top of the defaults
TimedOutAnswer ==
    [DefaultResponse EXCEPT !.ok = FALSE, !.message = "Image processing timeout",
                            !.status = "OK"]

\* some worker thread has not returned from processTasks
LiveWorker == \E w \in workers_ : wpc[w] # "exited"

AllExited == \A w \in workers_ : wpc[w] = "exited"

\* main is inside stopProcessing, holds the mutex and is about to set the flag:
\* the queue now holds the tasks that are queued when shutdown is requested
AtStopRequest == spc = "stop_check" /\ ~shutdown_requested_

Queued(t) == t \in Range(pending_tasks_)

\* C7 as stated: whatever the pool, every task queued when shutdown is requested
\* is eventually popped and written, and every worker thread terminates
C7_AsStated ==
    /\ \A t \in Requests : (AtStopRequest /\ Queued(t)) ~> (write_count[t] = 1)
    /\ AtStopRequest ~> AllExited

\* C7 (amended): in a pool of at least one worker every task queued when shutdown
\* is requested is eventually popped and written and every worker thread
\* terminates, a worker that had not yet started its loop included; a worker
\* leaves only when the flag is set and the queue is empty
C7_ShutdownDrains ==
    /\ \A t \in Requests :
         (AtStopRequest /\ Queued(t) /\ worker_count >= 1) ~> (write_count[t] = 1)
    /\ AtStopRequest ~> AllExited
    /\ [][\A w \in Workers :
            wpc'[w] = "exited" /\ wpc[w] # "exited"
                => shutdown_requested_ /\ pending_tasks_ = <<>>]_vars
    /\ [](AllExited /\ worker_count >= 1 => Held = {})

\* shutdown is requested with two tasks queued and a worker that has not started
C7_Witness ==
    /\ shutdown_requested_
    /\ spc = "notify_all"
    /\ Len(pending_tasks_) = 2
    /\ \E w \in workers_ : wpc[w] = "start"

\* a step of the main thread
MainStep == spc' # spc \/ stop_call' # stop_call

\* C8: the second stopProcessing call finds the flag set and returns from under
\* the lock: it never reaches notify_all or the joins, and none of its steps
\* changes the flag, the queue, a worker or a result channel
C8_SecondStopIsNoOp ==
    /\ [](stop_call = StopCalls
            => shutdown_requested_ /\ spc \in {"stop_check", "returned"})
    /\ [][MainStep /\ stop_call' = StopCalls
            => UNCHANGED <<shutdown_requested_, pending_tasks_, wpc, current_task,
                           text_promise, write_count>>]_vars

\* the second call has returned, with a task still queued that arrived late
C8_Witness ==
    /\ stop_call = StopCalls /\ spc = "returned"
    /\ pending_tasks_ # <<>>

IsErrorText(text) == Len(text) = 2 /\ text[1] = "ERROR: "

\* C9: whatever the outcome of a task, an exception included, its worker writes
\* the task's channel and is back at the top of its loop; a worker thread ends
\* only by the shutdown exit; and while shutdown is not requested a queued task
\* of a pool with a worker is eventually written, whatever came before it
C9_WorkerSurvivesTask ==
    /\ [][\A w \in Workers :
            /\ wpc[w] = "process" /\ wpc'[w] # "process"
                 => /\ wpc'[w] = "lock"
                    /\ write_count'[current_task[w]] = 1
                    /\ text_promise'[current_task[w]] \in OwnTexts(current_task[w])
            /\ wpc'[w] = "exited" /\ wpc[w] # "exited"
                 => wpc[w] = "locked" /\ ExitCondition]_vars
    /\ \A t \in Requests :
         (Queued(t) /\ ~shutdown_requested_ /\ worker_count >= 1)
             ~> (write_count[t] = 1)

\* the only worker threw on the first task, wrote the marker, then served the next
C9_Witness ==
    /\ worker_count = 1
    /\ IsErrorText(text_promise[1])
    /\ dequeue_log = <<1, 2>>
    /\ write_count[2] = 1
    /\ wpc[1] # "exited"

Returned(h) == hpc[h] \in {"completed", "timed_out"}

\* C10: every call that has arrived returns, whatever the workers do; in a pool
\* without workers it returns the timeout answer
C10_EveryCallReturns ==
    /\ \A h \in Requests : (hpc[h] # "idle") ~> Returned(h)
    /\ \A h \in Requests :
         (hpc[h] # "idle" /\ worker_count = 0)
             ~> (hpc[h] = "timed_out" /\ response[h] = TimedOutAnswer)

\* in a pool without workers every call has returned the timeout answer
C10_Witness ==
    /\ worker_count = 0
    /\ \A h \in Requests : hpc[h] = "timed_out" /\ response[h] = TimedOutAnswer

\* the workers inside the loop body with a task: where the engine is used
InUse(w) == wpc[w] = "process"

\* the engine of a worker that has run its Init call
OwnEngine(w) == [created_by |-> WorkerThread(w), inits |-> 1]

\* C11: a worker's engine is declared and initialised by the worker itself, once,
\* before its loop, and never again (not per task); two workers that are
\* processing at once use different instances; an instance changes only in its
\* own worker's start step, and the instance a worker recognises with is its own
C11_OneEnginePerWorker ==
    /\ [](\A w \in Workers :
            ocr_engine[EngineOf(w)] =
                IF wpc[w] \in {"absent", "start"} THEN NoEngine ELSE OwnEngine(w))
    /\ [](\A v, w \in Workers :
            InUse(v) /\ InUse(w) /\ EngineOf(v) = EngineOf(w) => v = w)
    /\ [][\A w \in Workers :
            /\ ocr_engine'[w] # ocr_engine[w] => wpc[w] = "start" /\ wpc'[w] = "lock"
            /\ (/\ wpc[w] = "process" /\ wpc'[w] # "process"
                /\ UsesEngine(outcome_of'[current_task[w]]))
                  => /\ ocr_engine[EngineOf(w)] = OwnEngine(w)
                     /\ ocr_engine' = ocr_engine]_vars

\* two workers are processing at once, each with the engine it initialised once
C11_Witness ==
    /\ InUse(1) /\ InUse(2)
    /\ ocr_engine[1] = OwnEngine(1) /\ ocr_engine[2] = OwnEngine(2)
    /\ ocr_engine[1].created_by # ocr_engine[2].created_by

\* the answer of the completed branch when the text is empty
EmptyTextAnswer(h) ==
    [DefaultResponse EXCEPT !.ok = TRUE, !.status = "OK",
                            !.processing_time_ms = response[h].processing_time_ms]

\* the call is still inside its wait, or about to enter it
StillWaiting(h) == hpc[h] \in {"notify", "waiting"}

\* C12: a task whose image cannot be decoded gets the empty string written, without
\* the engine being used, and its worker goes on; a request that is COMPLETED on
\* it is answered ok=true with empty text, the same answer as for a recognition
\* that found nothing; and a request still waiting when it is written is COMPLETED
C12_DecodeFailureIsEmptyText ==
    /\ [](\A t \in Requests :
            outcome_of[t] = "decode_failed"
                => text_promise[t] = <<>> /\ write_count[t] = 1)
    /\ [](\A t \in Requests :
            outcome_of[t] \in {"decode_failed", "no_text"} /\ hpc[t] = "completed"
                => response[t] = EmptyTextAnswer(t))
    /\ [][\A w \in Workers :
            (/\ wpc[w] = "process" /\ wpc'[w] # "process"
             /\ outcome_of'[current_task[w]] = "decode_failed")
                => /\ ~UsesEngine(outcome_of'[current_task[w]])
                   /\ text_promise'[current_task[w]] = <<>>
                   /\ wpc'[w] = "lock"]_vars
    /\ \A t \in Requests :
         (outcome_of[t] = "decode_failed" /\ StillWaiting(t))
             ~> (hpc[t] = "completed" /\ response[t] = EmptyTextAnswer(t))

\* a request whose image could not be decoded was answered ok=true with empty text
C12_Witness ==
    \E t \in Requests :
        /\ outcome_of[t] = "decode_failed"
        /\ hpc[t] = "completed"
        /\ response[t].ok /\ response[t].text = <<>> /\ response[t].message = ""

\* the try block of the task ended in one of the two catch clauses
Raised(t) == outcome_of[t] \in {"std_exception", "unknown_exception"}

\* the answer of the completed branch that carries the channel's value as text
DeliveredAnswer(h) ==
    [DefaultResponse EXCEPT !.ok = TRUE, !.status = "OK", !.text = text_promise[h],
                            !.processing_time_ms = response[h].processing_time_ms]

\* C13: when the processing of a task raises, the value written to its channel is
\* a marker that begins with "ERROR: "; the exception ends in the worker, which is
\* back at the top of its loop; a request COMPLETED on the task carries the marker
\* as text with ok=true, as recognised text is carried; and a request still
\* waiting when the marker is written is COMPLETED with it
C13_ExceptionBecomesMarker ==
    /\ [](\A t \in Requests :
            Raised(t) => IsErrorText(text_promise[t]) /\ write_count[t] = 1)
    /\ [](\A t \in Requests :
            Raised(t) /\ hpc[t] = "completed"
                => response[t] = DeliveredAnswer(t) /\ IsErrorText(response[t].text))
    /\ [][\A w \in Workers :
            (/\ wpc[w] = "process" /\ wpc'[w] # "process"
             /\ outcome_of'[current_task[w]] \in {"std_exception", "unknown_exception"})
                => /\ IsErrorText(text_promise'[current_task[w]])
                   /\ wpc'[w] = "lock"]_vars
    /\ \A t \in Requests :
         (Raised(t) /\ StillWaiting(t))
             ~> (hpc[t] = "completed" /\ response[t] = DeliveredAnswer(t))

\* one request was answered ok=true with the marker of a std::exception, another
\* with the marker of an unknown exception, and both workers are still there
C13_Witness ==
    /\ outcome_of[1] = "std_exception" /\ outcome_of[2] = "unknown_exception"
    /\ \A t \in Requests :
         hpc[t] = "completed" /\ response[t].ok /\ IsErrorText(response[t].text)
    /\ response[1].text # response[2].text
    /\ \A w \in Workers : wpc[w] \notin {"exited", "absent"}

\* the call's local new_task refers to the task from make_shared to the return
HandlerHolds(t) == hpc[t] \in {"received", "push", "notify", "waiting"}

\* some shared_ptr still refers to the task: the call's new_task, an element of
\* the queue, or the current_task of a worker that has not yet written the result
TaskExists(t) == HandlerHolds(t) \/ Queued(t) \/ t \in Held

\* C14 as stated: a task that still exists belongs to a request that has not yet
\* returned its response
C14_AsStated == \A t \in Requests : TaskExists(t) => ~Returned(t)

\* C14 (amended): a task that is queued or with a worker belongs to a request that
\* is still waiting or that has returned TIMED_OUT; no task exists before its
\* request arrives; the task of a COMPLETED request is neither queued nor being
\* processed; and the call's own reference ends with the call
C14_TaskLifetime ==
    \A t \in Requests :
        /\ Queued(t) \/ t \in Held => hpc[t] \in {"notify", "waiting", "timed_out"}
        /\ hpc[t] = "idle" => ~TaskExists(t)
        /\ hpc[t] = "completed" => ~TaskExists(t) /\ write_count[t] = 1
        /\ Returned(t) => ~HandlerHolds(t)
        /\ Returned(t) /\ write_count[t] = 1 => ~TaskExists(t)

\* one request is COMPLETED and its task is gone; another has returned TIMED_OUT
\* and its task is still in the queue
C14_Witness ==
    \E g, h \in Requests :
        /\ hpc[g] = "completed" /\ ~TaskExists(g)
        /\ hpc[h] = "timed_out" /\ Queued(h)

\* the task whose recognition never ends
StuckTask == 1

\* every thread runs, and every processing step ends but that of StuckTask: the
\* worker that takes StuckTask may stay in it for ever
StuckFairness ==
    /\ \A w \in Workers :
         /\ WF_vars(WorkerStart(w))
         /\ SF_vars(WorkerLock(w))
         /\ WF_vars(WorkerProcess(w) /\ current_task[w] # StuckTask)
    /\ StopFairness

StuckFairSpec ==
    Spec /\ HandlerFairness /\ MutexFairness /\ StuckFairness /\ WF_vars(Tick)

\* a worker is in the processing of StuckTask
Stuck == \E w \in Workers : wpc[w] = "process" /\ current_task[w] = StuckTask

\* C15: in a pool of at least two workers, whether or not the worker that took
\* StuckTask ever finishes it, every other task queued before shutdown is
\* requested is eventually popped and written, by a worker that holds that task
C15_NoStarvation ==
    /\ \A t \in Requests \ {StuckTask} :
         (Queued(t) /\ worker_count >= 2 /\ ~shutdown_requested_)
             ~> (write_count[t] = 1)
    /\ [][\A t \in Requests \ {StuckTask} :
            write_count'[t] # write_count[t]
                => \E w \in Workers :
                     /\ wpc[w] = "process" /\ current_task[w] = t
                     /\ wpc'[w] = "lock"]_vars

\* a worker is still in StuckTask, whose request has timed out meanwhile, and
\* another task, submitted after it, has been popped and written
C15_Witness ==
    /\ Stuck
    /\ hpc[StuckTask] = "timed_out"
    /\ \E t \in Requests \ {StuckTask} :
         /\ write_count[t] = 1
         /\ dequeue_log = <<StuckTask, t>>

\* C16: a worker enters the wait only from under the lock with the queue empty and
\* no shutdown requested, and with that state of the queue it does nothing else;
\* it takes a task only from a non-empty queue, and takes the front one; it leaves
\* its loop only with the flag set and the queue empty; a waiting worker that
\* wakes goes back to the lock; so no worker has exited before shutdown was
\* requested, nor while tasks were queued
C16_TakeBlocksOrPops ==
    /\ [](\A w \in Workers : wpc[w] = "exited" => shutdown_requested_)
    /\ [][\A w \in Workers :
            /\ wpc'[w] = "blocked" /\ wpc[w] # "blocked"
                 => /\ wpc[w] = "locked"
                    /\ ~shutdown_requested_ /\ pending_tasks_ = <<>>
                    /\ UNCHANGED <<pending_tasks_, current_task, shutdown_requested_>>
            /\ (/\ wpc[w] = "locked" /\ wpc'[w] # "locked"
                /\ ~shutdown_requested_ /\ pending_tasks_ = <<>>)
                 => wpc'[w] = "blocked"
            /\ wpc[w] = "blocked" /\ wpc'[w] # "blocked" => wpc'[w] = "lock"
            /\ current_task'[w] # NoTask /\ current_task[w] = NoTask
                 => /\ wpc[w] = "locked"
                    /\ pending_tasks_ # <<>>
                    /\ current_task'[w] = Head(pending_tasks_)
                    /\ pending_tasks_' = Tail(pending_tasks_)
            /\ wpc'[w] = "exited" /\ wpc[w] # "exited"
                 => /\ wpc[w] = "locked"
                    /\ shutdown_requested_ /\ pending_tasks_ = <<>>
                    /\ UNCHANGED <<pending_tasks_, current_task, shutdown_requested_>>
      ]_vars

\* shutdown is requested after a task was served: one worker has left through the
\* exit while another still sits in the wait it entered on the empty queue
C16_Witness ==
    /\ dequeue_log # <<>>
    /\ \E v, w \in Workers : wpc[v] = "exited" /\ wpc[w] = "blocked"

\* every worker thread the pool has started has returned from processTasks
Terminated == \A w \in Workers : wpc[w] \in {"absent", "exited"}

\* a call of stopProcessing has returned: main's, or the other thread's
MainReturned == spc = "returned"
OtherReturned == other_spc = "returned"

\* the thread is in the part of stopProcessing behind the early return
MainJoins == spc \in {"notify_all", "join"}
OtherJoins == other_spc \in {"notify_all", "join"}

\* C17 as stated: whenever a call of stopProcessing has returned, overlapping
\* another call or not, the flag is set and every worker thread has terminated
C17_AsStated ==
    MainReturned \/ OtherReturned => shutdown_requested_ /\ Terminated

\* C17 (amended): whenever a call has returned the flag is set; one call only gets
\* behind the early return: it sets the flag, its notify_all leaves no worker in
\* the wait, and it returns only when every worker thread has terminated, which
\* then stays so; a call that begins after that return finds them terminated, as
\* main's second call does when no other thread has called
C17_StopJoinsWorkers ==
    /\ [](MainReturned \/ OtherReturned => shutdown_requested_)
    /\ [](MainJoins \/ OtherJoins => shutdown_requested_)
    /\ [](~(MainJoins /\ OtherJoins))
    /\ [](stop_call = StopCalls /\ other_spc = "idle" => Terminated)
    /\ [][/\ (spc = "notify_all" /\ spc' = "join") \/
             (other_spc = "notify_all" /\ other_spc' = "join")
                => \A w \in Workers : wpc'[w] # "blocked"
          /\ (spc = "join" /\ spc' = "returned") \/
             (other_spc = "join" /\ other_spc' = "returned")
                => shutdown_requested_ /\ Terminated
          /\ Terminated /\ shutdown_requested_ => Terminated'
          /\ shutdown_requested_ => shutdown_requested_']_vars

\* main's call has set the flag and waits in the join loop for a worker that is
\* still processing, and the other thread's call, which found the flag set, has
\* returned
C17_Witness ==
    /\ spc = "join"
    /\ OtherReturned
    /\ \E w \in Workers : wpc[w] = "process"

\* some worker thread lives, and every living one sits in the condition wait
AllLiveWaiting ==
    /\ \E w \in workers_ : wpc[w] = "blocked"
    /\ \A w \in workers_ : wpc[w] \in {"blocked", "exited"}

\* the workers that leave the wait in this step
Woken == {w \in Workers : wpc[w] = "blocked" /\ wpc'[w] # "blocked"}

\* C18: the notify_one of submitTask comes after the guarded block and wakes one
\* waiting worker if there is one; the state with a task queued or shutdown
\* requested and every living worker in the wait does not last; and a task that
\* is queued while some worker thread lives is eventually popped
C18_NoLostWakeup ==
    /\ [](\A h \in Requests : hpc[h] = "notify" => queue_mutex_ # HandlerThread(h))
    /\ [][\A h \in Requests :
            hpc[h] = "notify" /\ hpc'[h] # "notify"
                => /\ Queued(h) \/ h \in Range(dequeue_log)
                   /\ Cardinality(Woken) =
                        IF \E w \in Workers : wpc[w] = "blocked" THEN 1 ELSE 0]_vars
    /\ (WaitPredicate /\ AllLiveWaiting) ~> ~AllLiveWaiting
    /\ \A t \in Requests : (Queued(t) /\ LiveWorker) ~> (t \in Range(dequeue_log))

\* a task has been pushed, its notify_one is still to come, and every living
\* worker sits in the wait it entered while the queue was empty
C18_Witness ==
    /\ \E h \in Requests : hpc[h] = "notify" /\ Queued(h)
    /\ AllLiveWaiting
    /\ worker_count = MaxWorkers

\* the threads inside a block guarded by queue_mutex_: a worker between its lock
\* and the end of its block (or its wait), a handler in submitTask's block, main
\* in stopProcessing's block
InCritical ==
    {WorkerThread(w) : w \in {v \in Workers : wpc[v] = "locked"}}
        \cup {HandlerThread(h) : h \in {g \in Requests : hpc[g] = "push"}}
        \cup (IF spc = "stop_check" THEN {MainThread} ELSE {})

\* C19: the threads at the places that read or write pending_tasks_ and
\* shutdown_requested_ are exactly the thread that holds queue_mutex_, at most
\* one; the queue and the flag change only in a step of the holder, which ends
\* its block; and a worker processing or writing a promise, and main in
\* notify_all or in the joins, do not hold the mutex
C19_Monitor ==
    /\ [](InCritical = IF queue_mutex_ = NoThread THEN {} ELSE {queue_mutex_})
    /\ [](Cardinality(InCritical) <= 1)
    /\ [](\A w \in Workers :
            wpc[w] \in {"process", "blocked"} => queue_mutex_ # WorkerThread(w))
    /\ [](spc \in {"notify_all", "join"} => queue_mutex_ # MainThread)
    /\ [][/\ (pending_tasks_' # pending_tasks_ \/ shutdown_requested_' # shutdown_requested_)
                => /\ queue_mutex_ \in InCritical
                   /\ queue_mutex_' = NoThread
          /\ \A w \in Workers :
                wpc[w] = "process" /\ wpc'[w] # "process"
                    => /\ queue_mutex_ # WorkerThread(w)
                       /\ UNCHANGED <<queue_mutex_, pending_tasks_, shutdown_requested_>>
          /\ spc = "join" /\ spc' # "join"
                => UNCHANGED <<queue_mutex_, pending_tasks_, shutdown_requested_>>]_vars

\* a handler is in submitTask's block while one worker processes its task outside
\* the mutex and the other worker waits for the mutex
C19_Witness ==
    /\ \E h \in Requests : queue_mutex_ = HandlerThread(h)
    /\ \E v, w \in Workers : wpc[v] = "process" /\ wpc[w] = "lock"

\* C20: when the wrapper has returned, a status that is not OK has made the
\* response ok=false with the status's error text as message, the other fields
\* as the call left them; with status OK the response is the server's, unchanged;
\* the stub is called once per call, failed or not; and every call returns
C20_ClientMapsStatus ==
    /\ [](cpc = "returned" =>
            IF operation_status.ok
              THEN extraction_response = server_reply
              ELSE /\ extraction_response.ok = FALSE
                   /\ extraction_response.message = operation_status.error_message
                   /\ extraction_response.text = server_reply.text
                   /\ extraction_response.processing_time_ms =
                          server_reply.processing_time_ms)
    /\ [](stub_calls = IF cpc = "idle" THEN 0 ELSE 1)
    /\ [][cpc' = "returned" /\ cpc # "returned"
            => cpc = "status_check" /\ UNCHANGED <<operation_status, stub_calls>>]_vars
    /\ (cpc = "calling") ~> (cpc = "returned")

\* the remote call failed after the deadline and the wrapper has returned ok=false
\* with the transport's text, in place of what the call had left in the response
C20_Witness ==
    /\ cpc = "returned"
    /\ ~operation_status.ok
    /\ operation_status.error_message = "Deadline Exceeded"
    /\ ~extraction_response.ok
    /\ extraction_response.message = "Deadline Exceeded"
    /\ server_reply.ok /\ server_reply.message = ""

\* shutdown is requested and every worker thread of the pool has returned
ShutdownCompleted == shutdown_requested_ /\ Terminated

\* the call has arrived and has not yet returned
InFlight(h) == hpc[h] \in {"received", "push", "notify", "waiting"}

\* C21: submitTask appends the task whatever the flag says, and a call that has
\* arrived does get its task queued; once shutdown is completed it stays so,
\* nothing is popped and no channel is written; a call in flight then, its
\* channel still empty, ends TIMED_OUT with the timeout answer, its task queued
\* and unwritten
C21_SubmitAfterShutdown ==
    /\ [][/\ \A h \in Requests :
                hpc[h] = "push" /\ hpc'[h] # "push"
                    => pending_tasks_' = Append(pending_tasks_, h)
          /\ ShutdownCompleted
                => /\ ShutdownCompleted'
                   /\ \A t \in Requests : Queued(t) => Queued(t)'
                   /\ UNCHANGED <<text_promise, dequeue_log, current_task>>]_vars
    /\ \A h \in Requests : (hpc[h] = "received") ~> (h \in Range(submit_log))
    /\ \A h \in Requests :
         (ShutdownCompleted /\ InFlight(h) /\ text_promise[h] = NotReady)
             ~> [](/\ hpc[h] = "timed_out" /\ response[h] = TimedOutAnswer
                   /\ Queued(h) /\ text_promise[h] = NotReady)

\* the pool served one request and was shut down; the next request came after
\* the last worker had left: it has timed out, its task queued and unwritten
C21_Witness ==
    /\ ShutdownCompleted /\ worker_count = MaxWorkers
    /\ \E g, h \in Requests :
         /\ hpc[g] = "completed"
         /\ hpc[h] = "timed_out" /\ ~response[h].ok
         /\ Queued(h) /\ text_promise[h] = NotReady

\* a step of call h's handler thread
HandlerMoves(h) == hpc'[h] # hpc[h]

\* C22: until it returns the handler leaves the response as it came; the timeout
\* return sets ok=false, the message and status OK and leaves text and
\* processing_time_ms alone; the completed return sets ok=true, the text, the time
\* and status OK and leaves the message alone; no other step touches a response;
\* and of the queue and the flag a handler step changes nothing, but for the one
\* push of its own task
C22_HandlerFrame ==
    /\ [](\A h \in Requests :
            /\ ~Returned(h) => response[h] = DefaultResponse
            /\ hpc[h] = "timed_out"
                 => /\ ~response[h].ok /\ response[h].status = "OK"
                    /\ response[h].message = "Image processing timeout"
                    /\ response[h].text = DefaultResponse.text
                    /\ response[h].processing_time_ms = DefaultResponse.processing_time_ms
            /\ hpc[h] = "completed"
                 => /\ response[h].ok /\ response[h].status = "OK"
                    /\ response[h].text = text_promise[h]
                    /\ response[h].processing_time_ms \in
                           {(t - task_start_time[h]) * MillisPerSecond : t \in 0..now}
                    /\ response[h].message = DefaultResponse.message)
    /\ [][\A h \in Requests :
            /\ response'[h] # response[h]
                 => /\ hpc[h] = "waiting" /\ Returned(h)'
                    /\ hpc'[h] = "timed_out"
                         => /\ response'[h].text = response[h].text
                            /\ response'[h].processing_time_ms =
                                   response[h].processing_time_ms
                    /\ hpc'[h] = "completed"
                         => response'[h].message = response[h].message
            /\ HandlerMoves(h)
                 => /\ shutdown_requested_' = shutdown_requested_
                    /\ IF hpc[h] = "push"
                         THEN pending_tasks_' = Append(pending_tasks_, h)
                         ELSE pending_tasks_' = pending_tasks_
                    /\ Submissions(h)' <= 1]_vars

\* one call has returned COMPLETED with its text, a time above zero and no
\* message; another has returned TIMED_OUT with the message and no text or time
C22_Witness ==
    \E g, h \in Requests :
        /\ hpc[g] = "completed"
        /\ response[g].text # <<>> /\ response[g].processing_time_ms > 0
        /\ response[g].message = ""
        /\ hpc[h] = "timed_out"
        /\ response[h].message # "" /\ response[h].text = <<>>
        /\ response[h].processing_time_ms = 0

====
